---- MODULE Spec2Model ----
(***************************************************************************)
(* Reconciliation engine of ArcadePinball: the SQLite tables written by    *)
(* database/queries.py and the importers, the handshake (matching)         *)
(* transactions, the three import runs, and the settlements.               *)
(*                                                                         *)
(* REAL columns and Python floats are IEEE-754 binary floating point.  The *)
(* model keeps the format and narrows the significand to PrecBits bits:    *)
(* an amount is an integer number of quanta, and every sum or difference   *)
(* is rounded to the nearest value with PrecBits significant bits, ties to *)
(* even.                                                                   *)
(***************************************************************************)
EXTENDS Integers, Sequences, FiniteSets, TLC

VARIABLES
    invoices,           \* table invoices: sequence, row i has invoice_id = i
    bank_transactions,  \* table bank_transactions: row i has bank_id = i
    handshakes,         \* table handshakes: set of rows
    handshake_seq,      \* sqlite_sequence entry of handshakes (AUTOINCREMENT)
    contracts,          \* table contracts: row i has contract_id = i
    shows,              \* table shows: row i has show_id = i
    invoice_items,      \* table invoice_items: row i has item_id = i
    settlements,        \* table settlements: row i has settlement_id = i
    lastRun,            \* the report of the last import run
    lastCall,           \* the last operation called, its arguments and result
    pair,               \* snapshot taken by the last successful create_handshake
    procs               \* the calls of the matching engine in progress, per caller

vars == <<invoices, bank_transactions, handshakes, handshake_seq, contracts,
          shows, invoice_items, settlements, lastRun, lastCall, pair, procs>>

-----------------------------------------------------------------------------
(* Bounds of the model *)

PrecBits == 3          \* significand width of the modelled REAL
MaxInvoices == 1       \* rows of invoices
MaxBank == 1           \* rows of bank_transactions
MaxHandshakeId == 2    \* create_handshake calls that insert a row
MaxFileRows == 2       \* rows of an import file
MaxAmount == 12        \* magnitude of the amounts passed to a calculation

\* Python None / SQL NULL where an integer identity is expected
NoId == 0

\* total_gross of the invoices created, amounts applied and proxy adjustments
Totals == {0, 5}
AppliedAmounts == {5}
ProxyAmounts == {-1, 0}
InvoiceNumbers == {"INV-1", "INV-2"}

-----------------------------------------------------------------------------
(* Floating point *)

Abs(n) == IF n < 0 THEN -n ELSE n

RECURSIVE Pow2(_)
Pow2(k) == IF k = 0 THEN 1 ELSE 2 * Pow2(k - 1)

\* the number of low-order bits a magnitude m loses when it is stored
RECURSIVE DropBits(_, _)
DropBits(m, k) == IF m < Pow2(PrecBits + k) THEN k ELSE DropBits(m, k + 1)

\* round to nearest, ties to even
RoundReal(n) ==
    LET m == Abs(n)
        u == Pow2(DropBits(m, 0))
        q == m \div u
        r == m % u
        up == (2 * r > u) \/ (2 * r = u /\ q % 2 = 1)
        v == (IF up THEN q + 1 ELSE q) * u
    IN  IF n < 0 THEN -v ELSE v

FAdd(a, b) == RoundReal(a + b)
FSub(a, b) == RoundReal(a - b)

-----------------------------------------------------------------------------
(* The database as one value, for the statements of a transaction *)

Db == [invoices |-> invoices, bank |-> bank_transactions,
       handshakes |-> handshakes, seq |-> handshake_seq]

\* PRAGMA foreign_keys = ON
ForeignKeys == TRUE

\* handshakes.bank_id and invoice_id are NOT NULL and reference existing rows
InsertAllowed(db, bank_id, invoice_id) ==
    /\ bank_id # NoId
    /\ invoice_id # NoId
    /\ ForeignKeys => /\ bank_id \in DOMAIN db.bank
                      /\ invoice_id \in DOMAIN db.invoices

\* INSERT INTO handshakes (...) VALUES (...); the new row takes the next id
InsertHandshake(db, bank_id, invoice_id, applied, proxy) ==
    [db EXCEPT !.handshakes = @ \cup {[handshake_id |-> db.seq + 1,
                                       bank_id |-> bank_id,
                                       invoice_id |-> invoice_id,
                                       bank_amount_applied |-> applied,
                                       proxy_amount |-> proxy]},
               !.seq = @ + 1]

\* UPDATE bank_transactions SET is_matched = ? WHERE bank_id = ?
UpdateBankMatchedAll(db, bank_id, flag) ==
    [db EXCEPT !.bank = [b \in DOMAIN @ |-> [@[b] EXCEPT !.is_matched = flag]]]
UpdateBankMatched(db, bank_id, flag) ==
    [db EXCEPT !.bank = [b \in DOMAIN @ |->
        IF b = bank_id THEN [@[b] EXCEPT !.is_matched = flag] ELSE @[b]]]

\* the three assignments of the UPDATE invoices statement; the right-hand
\* sides all read the row as it was before the statement
PaidRowStale(row, paid) ==
    [row EXCEPT !.paid_amount = paid,
                !.balance_remaining = FSub(row.total_gross, row.paid_amount),
                !.is_paid = (paid >= row.total_gross)]
PaidRow(row, paid) ==
    [row EXCEPT !.paid_amount = paid,
                !.balance_remaining = FSub(row.total_gross, paid),
                !.is_paid = (paid >= row.total_gross)]

\* UPDATE invoices SET paid_amount = paid_amount + ?, ... WHERE invoice_id = ?
IncreaseInvoicePaid(db, invoice_id, amount) ==
    [db EXCEPT !.invoices = [i \in DOMAIN @ |->
        IF i = invoice_id THEN PaidRow(@[i], FAdd(@[i].paid_amount, amount))
        ELSE @[i]]]

\* UPDATE invoices SET paid_amount = paid_amount - ?, ... WHERE invoice_id = ?
DecreaseInvoicePaid(db, invoice_id, amount) ==
    [db EXCEPT !.invoices = [i \in DOMAIN @ |->
        IF i = invoice_id THEN PaidRow(@[i], FSub(@[i].paid_amount, amount))
        ELSE @[i]]]

\* An exception before conn.commit(): the connection is dropped without a
\* commit and SQLite rolls the open transaction back.
RollbackKeepsWrites(before, working) == working
Rollback(before, working) == before

\* the write of create_handshake that raises: the insert when the storage
\* layer faults on it or refuses the row, else the faulting update (0: none)
FailedWrite(db, bank_id, invoice_id, fault) ==
    IF ~InsertAllowed(db, bank_id, invoice_id) THEN 1 ELSE fault

\* create_handshake: fault names the write on which the storage layer raises
\* (0: none).  Returns the database after the call and the value returned.
CreateHandshakeTxn(db, bank_id, invoice_id, applied, proxy, fault) ==
    LET amount == FAdd(applied, proxy)
        db1 == InsertHandshake(db, bank_id, invoice_id, applied, proxy)
        db2 == UpdateBankMatched(db1, bank_id, TRUE)
        db3 == IncreaseInvoicePaid(db2, invoice_id, amount)
        failed == FailedWrite(db, bank_id, invoice_id, fault)
    IN  IF failed = 1 THEN [db |-> Rollback(db, db), ret |-> NoId]
        ELSE IF failed = 2 THEN [db |-> Rollback(db, db1), ret |-> NoId]
        ELSE IF failed = 3 THEN [db |-> Rollback(db, db2), ret |-> NoId]
        ELSE [db |-> db3, ret |-> db1.seq]

\* the re-check of delete_handshake: does the bank row keep a handshake?
LastHandshakeGoneAlways(db, bank_id) == TRUE
LastHandshakeGone(db, bank_id) ==
    Cardinality({h \in db.handshakes : h.bank_id = bank_id}) = 0

\* the not-found branch of delete_handshake: nothing written, False returned
NotFoundReportsSuccess(db) == [db |-> db, ret |-> TRUE]
NotFoundResult(db) == [db |-> db, ret |-> FALSE]

\* delete_handshake
DeleteHandshakeTxn(db, handshake_id) ==
    LET rows == {h \in db.handshakes : h.handshake_id = handshake_id}
    IN  IF rows = {} THEN NotFoundResult(db)
        ELSE
        LET row == CHOOSE h \in rows : TRUE
            total_applied == FAdd(row.bank_amount_applied, row.proxy_amount)
            db1 == [db EXCEPT !.handshakes = @ \ rows]
            db2 == IF LastHandshakeGone(db1, row.bank_id)
                   THEN UpdateBankMatched(db1, row.bank_id, FALSE)
                   ELSE db1
            db3 == DecreaseInvoicePaid(db2, row.invoice_id, total_applied)
        IN  [db |-> db3, ret |-> TRUE]

-----------------------------------------------------------------------------
(* Row-level inserts used by the importers *)

\* check_invoice_exists
CheckInvoiceExists(inv, invoice_number) ==
    \E i \in DOMAIN inv : inv[i].invoice_number = invoice_number

\* the invoices row create_invoice inserts: balance_remaining is set to
\* total_gross; is_paid and paid_amount take the column defaults
NewInvoiceRow(invoice_data) ==
    [invoice_number |-> invoice_data.invoice_number,
     contract_number |-> invoice_data.contract_number,
     show_id |-> invoice_data.show_id,
     total_gross |-> invoice_data.total_gross,
     is_paid |-> FALSE,
     paid_amount |-> 0,
     balance_remaining |-> invoice_data.total_gross]

\* the invoice_items rows of one invoice
ItemRowsFirstOnly(invoice_id, line_items) ==
    [k \in {1} \cap DOMAIN line_items |->
        [invoice_id |-> invoice_id,
         account_code |-> line_items[k].account_code,
         gross |-> line_items[k].gross]]
ItemRows(invoice_id, line_items) ==
    [k \in DOMAIN line_items |->
        [invoice_id |-> invoice_id,
         account_code |-> line_items[k].account_code,
         gross |-> line_items[k].gross]]

\* the duplicate check at the head of create_invoice
InvoiceDuplicate(inv, invoice_data) ==
    CheckInvoiceExists(inv, invoice_data.invoice_number)

\* create_invoice: header and line items in one transaction; the tables
\* after the call and the id returned
CreateInvoice(inv, items, invoice_data, line_items) ==
    IF InvoiceDuplicate(inv, invoice_data)
    THEN [invoices |-> inv, items |-> items, ret |-> NoId]
    ELSE [invoices |-> Append(inv, NewInvoiceRow(invoice_data)),
          items |-> items \o ItemRows(Len(inv) + 1, line_items),
          ret |-> Len(inv) + 1]

\* check_contract_exists
CheckContractExists(con, contract_number) ==
    \E c \in DOMAIN con : con[c].contract_number = contract_number

\* the duplicate check at the head of create_contract
ContractDuplicate(con, contract_data) ==
    CheckContractExists(con, contract_data.contract_number)

\* create_contract: show_id is left NULL
CreateContract(con, contract_data) ==
    IF ContractDuplicate(con, contract_data)
    THEN [contracts |-> con, ret |-> NoId]
    ELSE [contracts |-> Append(con,
                          [contract_number |-> contract_data.contract_number,
                           artist |-> contract_data.artist,
                           show_id |-> NoId]),
          ret |-> Len(con) + 1]

\* shows.artist is NOT NULL: the insert of a show without artist raises
ShowInsertAllowed(show_data) == show_data.artist # ""

\* create_show: None when the insert raises
CreateShow(sh, show_data) ==
    IF ~ShowInsertAllowed(show_data)
    THEN [shows |-> sh, ret |-> NoId]
    ELSE [shows |-> Append(sh, show_data), ret |-> Len(sh) + 1]

\* _generate_hash: the arguments joined with "|"; the MD5 digest of the
\* joined text is modelled by the text itself
GenerateHash(date, amount, description) ==
    <<date, "|", amount, "|", description>>

\* check_bank_transaction_exists
CheckBankTransactionExistsNever(bank, date, amount, description) == FALSE
CheckBankTransactionExists(bank, date, amount, description) ==
    \E b \in DOMAIN bank :
        bank[b].transaction_hash = GenerateHash(date, amount, description)

\* the duplicate check at the head of create_bank_transaction
BankDuplicateUnchecked(bank, tx) == FALSE
BankDuplicate(bank, tx) ==
    CheckBankTransactionExists(bank, tx.date, tx.amount, tx.description)

\* create_bank_transaction: the table after the call and the id returned
CreateBankTransaction(bank, tx) ==
    IF BankDuplicate(bank, tx)
    THEN [bank |-> bank, ret |-> NoId]
    ELSE [bank |-> Append(bank,
                     [date |-> tx.date,
                      description |-> tx.description,
                      amount |-> tx.amount,
                      transaction_hash |->
                          GenerateHash(tx.date, tx.amount, tx.description),
                      is_matched |-> FALSE]),
          ret |-> Len(bank) + 1]

-----------------------------------------------------------------------------
(* Bank importer *)

\* A file is what pd.read_csv is given: whether it can be read, the column
\* titles of its first line in order, and its rows, each a function from
\* the titles to cells.  "" is the empty cell (NaN) and the missing column
\* (None).

\* the smallest of a non-empty set of positions
Least(S) == CHOOSE i \in S : \A j \in S : i <= j

\* _find_column: the first title equal to one of the names, else the first
\* title containing one of them; exact and partial are the titles of the
\* model that pass the one and the other test
FindColumn(header, exact, partial) ==
    LET equal == {i \in DOMAIN header : header[i] \in exact}
        contains == {i \in DOMAIN header : header[i] \in partial}
    IN  IF equal # {} THEN header[Least(equal)]
        ELSE IF contains # {} THEN header[Least(contains)]
        ELSE ""

\* the columns _parse_rows looks for
BankColumns(header) ==
    [date |-> FindColumn(header, {"Date"}, {"Date"}),
     description |-> FindColumn(header, {"Description"}, {"Description"}),
     credit |-> FindColumn(header, {"Paid In"}, {"Paid In"}),
     debit |-> FindColumn(header, {"Paid Out"}, {"Paid Out"})]

\* row[col_name], None when the column was not found
CellOf(row, col_name) == IF col_name = "" THEN "" ELSE row[col_name]

\* _get_cell_value: None for an empty cell, for blanks and for "nan"
GetCellValue(cell) == IF cell \in {"", " ", "nan"} THEN "" ELSE cell

\* float(cleaned) on the texts of the model: <<>> is ValueError
FloatOf(text) ==
    IF text = "5.00" THEN <<5>>
    ELSE IF text = "10.00" THEN <<10>>
    ELSE <<>>

\* _parse_amount: commas and currency symbols removed, 0.0 when the cell is
\* empty or float() raises
ParseAmount(cell) ==
    LET value == GetCellValue(cell)
        cleaned == IF value = "£5.00" THEN "5.00" ELSE value
    IN  IF value = "" THEN 0
        ELSE IF FloatOf(cleaned) = <<>> THEN 0 ELSE FloatOf(cleaned)[1]

\* abs(amount) < 0.01, amounts counted in units of 0.01
ZeroAmountThreshold == 1

\* the report lists and the staged rows before the first row is read
NoRows == [rows |-> <<>>, skipped |-> <<>>, duplicates |-> <<>>]

\* _parse_rows over the first k rows of the file, col the columns found;
\* the duplicate check reads the table as it is before the run
RECURSIVE ParseRows(_, _, _, _)
ParseRows(file, col, k, bank) ==
    IF k = 0 THEN NoRows
    ELSE
    LET row == file.rows[k]
        date_val == GetCellValue(CellOf(row, col.date))
        desc_val == GetCellValue(CellOf(row, col.description))
        Row(acc, amount) ==
            IF date_val = "" THEN [acc EXCEPT !.skipped = Append(@, k)]
            ELSE IF desc_val = "" THEN [acc EXCEPT !.skipped = Append(@, k)]
            ELSE IF Abs(amount) < ZeroAmountThreshold
                 THEN [acc EXCEPT !.skipped = Append(@, k)]
            ELSE IF CheckBankTransactionExists(bank, date_val, amount,
                                               desc_val)
                 THEN [acc EXCEPT !.duplicates = Append(@, k)]
            ELSE [acc EXCEPT !.rows = Append(@, [row_num |-> k,
                                                 date |-> date_val,
                                                 description |-> desc_val,
                                                 amount |-> amount])]
    IN  Row(ParseRows(file, col, k - 1, bank),
            FSub(ParseAmount(CellOf(row, col.credit)),
                 ParseAmount(CellOf(row, col.debit))))

\* _insert_to_database over the first k staged rows
RECURSIVE InsertToDatabase(_, _, _)
InsertToDatabase(rows, k, bank) ==
    IF k = 0 THEN [bank |-> bank, inserted |-> <<>>]
    ELSE
    LET Created(acc, r) ==
            IF r.ret # NoId
            THEN [bank |-> r.bank,
                  inserted |-> Append(acc.inserted, rows[k].row_num)]
            ELSE acc
        Row(acc) == Created(acc, CreateBankTransaction(acc.bank, rows[k]))
    IN  Row(InsertToDatabase(rows, k - 1, bank))

\* a fatal run reported to the caller as a success
FatalRunReportsSuccess(kind, error) ==
    [kind |-> kind, success |-> TRUE, error |-> error, count |-> 0,
     inserted |-> <<>>, duplicates |-> <<>>, skipped |-> <<>>]

\* the result of a run that ended before any row was read: the source
\* could not be read, or a required column is missing
FatalRun(kind, error) ==
    [kind |-> kind, success |-> FALSE, error |-> error, count |-> 0,
     inserted |-> <<>>, duplicates |-> <<>>, skipped |-> <<>>]

\* import_transactions: the table after the run and the run's report
ImportTransactions(file, bank) ==
    LET Inserted(parsed, done) ==
            [bank |-> done.bank,
             run |-> [kind |-> "bank", success |-> TRUE, error |-> "",
                      count |-> Len(done.inserted),
                      inserted |-> done.inserted,
                      duplicates |-> parsed.duplicates,
                      skipped |-> parsed.skipped]]
        Parsed(parsed) ==
            IF parsed.rows = <<>>
            THEN [bank |-> bank,
                  run |-> [kind |-> "bank", success |-> FALSE, error |-> "",
                           count |-> 0, inserted |-> <<>>,
                           duplicates |-> parsed.duplicates,
                           skipped |-> parsed.skipped]]
            ELSE Inserted(parsed, InsertToDatabase(parsed.rows,
                                                   Len(parsed.rows), bank))
        Columns(col) ==
            IF col.date = "" \/ col.description = ""
            THEN [bank |-> bank, run |-> FatalRun("bank", "missing column")]
            ELSE Parsed(ParseRows(file, col, Len(file.rows), bank))
    IN  IF ~file.readable
        THEN [bank |-> bank, run |-> FatalRun("bank", "unreadable")]
        ELSE Columns(BankColumns(file.header))

-----------------------------------------------------------------------------
(* Contract importer *)

\* _get_value of the contract importer: None for an empty cell and for the
\* texts nan, none and n/a in any case
ContractGetValue(cell) ==
    IF cell \in {"", " ", "nan", "None", "N/A"} THEN "" ELSE cell

\* _detect_columns of the contract importer, for the two fields the model
\* keeps: the first pass takes a title equal to a name, the second a title
\* that contains one ("Contract Number" contains "act") and that no field
\* has taken yet
ContractColumns(header) ==
    LET number == FindColumn(header, {"Contract Number"}, {"Contract Number"})
        free == SelectSeq(header, LAMBDA t : t # number)
    IN  [contract_number |-> number,
         artist |-> FindColumn(free, {"Artist"},
                               {"Artist", "Contract Number"})]

\* _parse_contract: the fields of the row the model keeps
ParseContract(row, col_map) ==
    [artist |-> ContractGetValue(CellOf(row, col_map.artist))]

\* _contract_to_show
ContractToShow(contract_data) ==
    [contract_number |-> contract_data.contract_number,
     artist |-> contract_data.artist,
     status |-> "Contracted",
     settlement_status |-> "Pending"]

\* _link_contract_to_show
LinkContractToShow(con, contract_id, show_id) ==
    [con EXCEPT ![contract_id].show_id = show_id]

NoContractRun == [contracts |-> <<>>, shows |-> <<>>, inserted |-> <<>>,
                  duplicates |-> <<>>, skipped |-> <<>>]

\* the row loop of import_contracts over the first k rows of the file; every
\* row reads the tables as the rows before it left them
RECURSIVE ImportContractRows(_, _, _, _, _)
ImportContractRows(file, col_map, k, con, sh) ==
    IF k = 0 THEN [NoContractRun EXCEPT !.contracts = con, !.shows = sh]
    ELSE
    LET row == file.rows[k]
        contract_num ==
            ContractGetValue(CellOf(row, col_map.contract_number))
        contract_data == [contract_number |-> contract_num,
                          artist |-> ParseContract(row, col_map).artist]
        Created(acc, c, s) ==
            IF c.ret = NoId THEN acc
            ELSE IF s.ret = NoId
                 THEN [acc EXCEPT !.contracts = c.contracts,
                                  !.inserted = Append(@, k)]
            ELSE [acc EXCEPT !.contracts =
                                 LinkContractToShow(c.contracts, c.ret, s.ret),
                             !.shows = s.shows,
                             !.inserted = Append(@, k)]
        Row(acc) ==
            IF contract_num = "" THEN [acc EXCEPT !.skipped = Append(@, k)]
            ELSE IF CheckContractExists(acc.contracts, contract_num)
                 THEN [acc EXCEPT !.duplicates = Append(@, k)]
            ELSE Created(acc, CreateContract(acc.contracts, contract_data),
                         CreateShow(acc.shows, ContractToShow(contract_data)))
    IN  Row(ImportContractRows(file, col_map, k - 1, con, sh))

\* import_contracts: the tables after the run and the run's report
ImportContracts(file, con, sh) ==
    LET Done(done) ==
            [contracts |-> done.contracts,
             shows |-> done.shows,
             run |-> [kind |-> "contract", success |-> TRUE, error |-> "",
                      count |-> Len(done.inserted),
                      inserted |-> done.inserted,
                      duplicates |-> done.duplicates,
                      skipped |-> done.skipped]]
        Columns(col_map) ==
            IF col_map.contract_number = ""
            THEN [contracts |-> con, shows |-> sh,
                  run |-> FatalRun("contract", "missing column")]
            ELSE Done(ImportContractRows(file, col_map, Len(file.rows),
                                         con, sh))
    IN  IF ~file.readable
        THEN [contracts |-> con, shows |-> sh,
              run |-> FatalRun("contract", "unreadable")]
        ELSE Columns(ContractColumns(file.header))

-----------------------------------------------------------------------------
(* Invoice importer *)

\* _get_value of the invoice importer
InvoiceGetValue(cell) ==
    IF cell \in {"", " ", "nan", "None"} THEN "" ELSE cell

\* _get_float of the invoice importer
InvoiceGetFloat(cell) ==
    LET value == InvoiceGetValue(cell)
        cleaned == IF value = "£5.00" THEN "5.00" ELSE value
    IN  IF value = "" THEN 0
        ELSE IF FloatOf(cleaned) = <<>> THEN 0 ELSE FloatOf(cleaned)[1]

\* _detect_columns of the invoice importer, for the fields the model keeps:
\* one pass, the first title that contains one of the field's names; a
\* title may serve several fields ("Total" contains a name of gross and of
\* value)
InvoiceColumns(header) ==
    [invoice_number |-> FindColumn(header, {}, {"Invoice Number"}),
     contract_number |-> FindColumn(header, {}, {"Contract Number"}),
     account_code |-> FindColumn(header, {}, {"AccountCode"}),
     gross |-> FindColumn(header, {}, {"Gross", "Total"}),
     value |-> FindColumn(header, {}, {"Value", "Total"})]

\* is_simple_format
IsSimpleFormat(col_map) == col_map.value # "" /\ col_map.account_code = ""

\* the required columns of _group_by_invoice are there
InvoiceColumnsComplete(col_map) ==
    /\ col_map.invoice_number # ""
    /\ IsSimpleFormat(col_map)
           \/ (col_map.account_code # "" /\ col_map.gross # "")

\* position of the invoice number in the grouping dictionary, 0 if absent
KeyIndex(groups, inv_num) ==
    IF \E g \in DOMAIN groups : groups[g].invoice_number = inv_num
    THEN CHOOSE g \in DOMAIN groups : groups[g].invoice_number = inv_num
    ELSE 0

\* invoices[inv_num] = entry: a new key goes last, an old key keeps its place
SetKey(groups, entry) ==
    IF KeyIndex(groups, entry.invoice_number) = 0 THEN Append(groups, entry)
    ELSE [groups EXCEPT ![KeyIndex(groups, entry.invoice_number)] = entry]

NoGroups == [invoices |-> <<>>, skipped |-> <<>>]

\* the row loop of _group_by_invoice over the first k rows
RECURSIVE GroupRows(_, _, _)
GroupRows(file, col_map, k) ==
    IF k = 0 THEN NoGroups
    ELSE
    LET row == file.rows[k]
        inv_num == InvoiceGetValue(CellOf(row, col_map.invoice_number))
        value == InvoiceGetFloat(CellOf(row, col_map.value))
        gross == InvoiceGetFloat(CellOf(row, col_map.gross))
        account_code == InvoiceGetValue(CellOf(row, col_map.account_code))
        header == [invoice_number |-> inv_num,
                   contract_number |->
                       InvoiceGetValue(CellOf(row, col_map.contract_number)),
                   line_items |-> <<>>]
        item == [account_code |-> account_code, gross |-> gross]
        Opened(acc, opened) ==
            [acc EXCEPT !.invoices =
                [opened EXCEPT ![KeyIndex(opened, inv_num)].line_items =
                                   Append(@, item)]]
        Row(acc) ==
            IF inv_num = "" THEN [acc EXCEPT !.skipped = Append(@, k)]
            ELSE IF IsSimpleFormat(col_map)
            THEN IF value = 0 THEN [acc EXCEPT !.skipped = Append(@, k)]
                 ELSE [acc EXCEPT !.invoices = SetKey(@,
                          [header EXCEPT !.line_items =
                              <<[account_code |-> "Invoice Total",
                                 gross |-> value]>>])]
            ELSE IF account_code = ""
                 THEN [acc EXCEPT !.skipped = Append(@, k)]
            ELSE Opened(acc, IF KeyIndex(acc.invoices, inv_num) = 0
                             THEN Append(acc.invoices, header)
                             ELSE acc.invoices)
    IN  Row(GroupRows(file, col_map, k - 1))

\* sum(item['gross'] for item in line_items)
RECURSIVE SumGross(_, _)
SumGross(line_items, k) ==
    IF k = 0 THEN 0
    ELSE FAdd(SumGross(line_items, k - 1), line_items[k].gross)

\* _find_show_for_invoice: the show carrying the invoice's contract number
FindShowForInvoiceUnlinked(sh, contract_number) == NoId
FindShowForInvoice(sh, contract_number) ==
    IF contract_number # ""
       /\ \E x \in DOMAIN sh : sh[x].contract_number = contract_number
    THEN CHOOSE x \in DOMAIN sh :
            /\ sh[x].contract_number = contract_number
            /\ \A y \in DOMAIN sh :
                  sh[y].contract_number = contract_number => x <= y
    ELSE NoId

NoInvoiceRun == [invoices |-> <<>>, items |-> <<>>, inserted |-> <<>>,
                 duplicates |-> <<>>]

\* _insert_invoices over the first k grouped invoices
RECURSIVE InsertInvoices(_, _, _, _, _)
InsertInvoices(groups, k, inv, items, sh) ==
    IF k = 0 THEN [NoInvoiceRun EXCEPT !.invoices = inv, !.items = items]
    ELSE
    LET g == groups[k]
        Created(acc, r) ==
            IF r.ret = NoId THEN acc
            ELSE [acc EXCEPT !.invoices = r.invoices, !.items = r.items,
                             !.inserted = Append(@, g.invoice_number)]
        Data(acc, invoice_data) ==
            Created(acc, CreateInvoice(acc.invoices, acc.items, invoice_data,
                                       g.line_items))
        Row(acc) ==
            IF CheckInvoiceExists(acc.invoices, g.invoice_number)
            THEN [acc EXCEPT !.duplicates = Append(@, g.invoice_number)]
            ELSE Data(acc,
                   [invoice_number |-> g.invoice_number,
                    contract_number |-> g.contract_number,
                    show_id |-> FindShowForInvoice(sh, g.contract_number),
                    total_gross |-> SumGross(g.line_items, Len(g.line_items))])
    IN  Row(InsertInvoices(groups, k - 1, inv, items, sh))

\* import_invoices: the tables after the run and the run's report
ImportInvoices(file, inv, items, sh) ==
    LET Inserted(grouped, done) ==
            [invoices |-> done.invoices, items |-> done.items,
             run |-> [kind |-> "invoice", success |-> TRUE, error |-> "",
                      count |-> Len(done.inserted),
                      inserted |-> done.inserted,
                      duplicates |-> done.duplicates,
                      skipped |-> grouped.skipped]]
        Grouped(grouped) ==
            IF grouped.invoices = <<>>
            THEN [invoices |-> inv, items |-> items,
                  run |-> [kind |-> "invoice", success |-> FALSE,
                           error |-> "", count |-> 0, inserted |-> <<>>,
                           duplicates |-> <<>>, skipped |-> grouped.skipped]]
            ELSE Inserted(grouped,
                          InsertInvoices(grouped.invoices,
                                         Len(grouped.invoices), inv, items, sh))
        Columns(col_map) ==
            IF ~InvoiceColumnsComplete(col_map)
            THEN [invoices |-> inv, items |-> items,
                  run |-> FatalRun("invoice", "missing column")]
            ELSE Grouped(GroupRows(file, col_map, Len(file.rows)))
    IN  IF ~file.readable
        THEN [invoices |-> inv, items |-> items,
              run |-> FatalRun("invoice", "unreadable")]
        ELSE Columns(InvoiceColumns(file.header))

------------------------------------------------------------------------------
(* Settlements *)

\* datetime.now().isoformat(): the text of the moment of the call
Now == "now"

\* INSERT INTO settlements: show_id and artist are NOT NULL, show_id
\* references shows
SettlementInsertAllowed(sh, settlement_data) ==
    /\ settlement_data.show_id # NoId
    /\ settlement_data.artist # ""
    /\ ForeignKeys => settlement_data.show_id \in DOMAIN sh

\* create_settlement: the balance is computed from the amounts given; the
\* confirmation columns start NULL; None when the insert raises
CreateSettlement(st, sh, settlement_data) ==
    IF ~SettlementInsertAllowed(sh, settlement_data)
    THEN [settlements |-> st, ret |-> NoId]
    ELSE [settlements |->
              Append(st, [show_id |-> settlement_data.show_id,
                          artist |-> settlement_data.artist,
                          amount_due |-> settlement_data.amount_due,
                          amount_paid |-> settlement_data.amount_paid,
                          balance |-> FSub(settlement_data.amount_due,
                                           settlement_data.amount_paid),
                          status |-> settlement_data.status,
                          confirmed_by |-> "",
                          confirmed_at |-> ""]),
          ret |-> Len(st) + 1]

\* update_settlement, the recalculation: the amounts of the update over
\* those of the stored row give the balance, and the status when something
\* was paid
RecalculateNoBalance(row, updates) ==
    LET amount_due == IF "amount_due" \in DOMAIN updates
                      THEN updates.amount_due ELSE row.amount_due
        amount_paid == IF "amount_paid" \in DOMAIN updates
                       THEN updates.amount_paid ELSE row.amount_paid
    IN  IF amount_paid >= amount_due THEN "status" :> "Paid" @@ updates
        ELSE IF amount_paid > 0 THEN "status" :> "Partial" @@ updates
        ELSE updates
Recalculate(row, updates) ==
    LET amount_due == IF "amount_due" \in DOMAIN updates
                      THEN updates.amount_due ELSE row.amount_due
        amount_paid == IF "amount_paid" \in DOMAIN updates
                       THEN updates.amount_paid ELSE row.amount_paid
        balance == "balance" :> FSub(amount_due, amount_paid) @@ updates
    IN  IF amount_paid >= amount_due THEN "status" :> "Paid" @@ balance
        ELSE IF amount_paid > 0 THEN "status" :> "Partial" @@ balance
        ELSE balance

\* UPDATE settlements SET k = ? for every key of the update
SetColumns(row, updates) ==
    [k \in DOMAIN row |-> IF k \in DOMAIN updates THEN updates[k] ELSE row[k]]

\* update_settlement: an id without a row updates nothing and returns True
UpdateSettlement(st, settlement_id, updates) ==
    IF settlement_id \notin DOMAIN st THEN [settlements |-> st, ret |-> TRUE]
    ELSE IF DOMAIN updates \cap {"amount_paid", "amount_due"} = {}
    THEN [settlements |-> [st EXCEPT ![settlement_id] = SetColumns(@, updates)],
          ret |-> TRUE]
    ELSE [settlements |->
              [st EXCEPT ![settlement_id] =
                             SetColumns(@, Recalculate(@, updates))],
          ret |-> TRUE]

\* confirm_settlement: an id without a row updates nothing and returns True
ConfirmSettlementWhenPaid(st, settlement_id, confirmed_by) ==
    IF settlement_id \notin DOMAIN st \/ st[settlement_id].status # "Paid"
    THEN [settlements |-> st, ret |-> TRUE]
    ELSE [settlements |-> [st EXCEPT ![settlement_id].status = "Confirmed",
                                     ![settlement_id].confirmed_by =
                                         confirmed_by,
                                     ![settlement_id].confirmed_at = Now],
          ret |-> TRUE]
ConfirmSettlement(st, settlement_id, confirmed_by) ==
    IF settlement_id \notin DOMAIN st THEN [settlements |-> st, ret |-> TRUE]
    ELSE [settlements |-> [st EXCEPT ![settlement_id].status = "Confirmed",
                                     ![settlement_id].confirmed_by =
                                         confirmed_by,
                                     ![settlement_id].confirmed_at = Now],
          ret |-> TRUE]

------------------------------------------------------------------------------
(* Calculations *)

\* config/settings.py: the tolerance, one quantum of the amounts
AMOUNT_TOLERANCE == 1

\* calculate_payment_status
CalculatePaymentStatus(applied_amount, total_amount) ==
    IF Abs(applied_amount) < AMOUNT_TOLERANCE THEN "UNPAID"
    ELSE IF FAdd(applied_amount, AMOUNT_TOLERANCE) < total_amount
         THEN "PART PAID"
    ELSE IF Abs(FSub(applied_amount, total_amount)) <= AMOUNT_TOLERANCE
         THEN "PAID"
    ELSE "OVERPAID"

\* row.get(field, 0) or 0
Get(row, field) == IF field \in DOMAIN row THEN row[field] ELSE 0

\* DataFrame[field].sum() and the += of a loop: the floats added in row order
RECURSIVE SumOf(_, _, _)
SumOf(rows, field, k) ==
    IF k = 0 THEN 0 ELSE FAdd(SumOf(rows, field, k - 1), rows[k][field])

\* the bucket of an outgoing payment: the first of artist, hotel, flight that
\* its type contains, in lower case
PaymentBucket(payment_type) ==
    CASE payment_type \in {"Artist Fee", "Artist Hotel"} -> "artist"
      [] payment_type \in {"Hotel"} -> "hotel"
      [] payment_type \in {"Flight"} -> "flight"
      [] OTHER -> "other"

\* net to artist: the fee less the buyouts and the withholding tax
NetArtistDueBeforeTax(show) ==
    FSub(FSub(Get(show, "artist_fee"), Get(show, "hotel_buyout")),
         Get(show, "flight_buyout"))
NetArtistDue(show) ==
    FSub(FSub(FSub(Get(show, "artist_fee"), Get(show, "hotel_buyout")),
              Get(show, "flight_buyout")),
         Get(show, "withholding_tax"))

\* the three statuses of a show from its figures
ShowStatusesPromoterFirst(outstanding_from_promoter, total_received, artist_balance, artist_paid) ==
    LET promoter_status ==
            IF outstanding_from_promoter <= AMOUNT_TOLERANCE THEN "PAID"
            ELSE IF total_received > AMOUNT_TOLERANCE THEN "PART PAID"
            ELSE "UNPAID"
        artist_status ==
            IF artist_balance <= AMOUNT_TOLERANCE THEN "SETTLED"
            ELSE IF artist_paid > AMOUNT_TOLERANCE THEN "PARTIAL"
            ELSE "PENDING"
    IN  [promoter_status |-> promoter_status,
         artist_status |-> artist_status,
         overall_status |->
             IF promoter_status = "PAID" /\ artist_status = "SETTLED"
             THEN "COMPLETE"
             ELSE IF promoter_status = "PAID"
                  THEN "AWAITING ARTIST PAYMENT"
             ELSE IF promoter_status = "UNPAID"
                  THEN "AWAITING PROMOTER PAYMENT"
             ELSE "IN PROGRESS"]
ShowStatuses(outstanding_from_promoter, total_received, artist_balance, artist_paid) ==
    LET promoter_status ==
            IF outstanding_from_promoter <= AMOUNT_TOLERANCE THEN "PAID"
            ELSE IF total_received > AMOUNT_TOLERANCE THEN "PART PAID"
            ELSE "UNPAID"
        artist_status ==
            IF artist_balance <= AMOUNT_TOLERANCE THEN "SETTLED"
            ELSE IF artist_paid > AMOUNT_TOLERANCE THEN "PARTIAL"
            ELSE "PENDING"
    IN  [promoter_status |-> promoter_status,
         artist_status |-> artist_status,
         overall_status |->
             IF promoter_status = "PAID" /\ artist_status = "SETTLED"
             THEN "COMPLETE"
             ELSE IF promoter_status = "PAID" /\ artist_status # "SETTLED"
                  THEN "AWAITING ARTIST PAYMENT"
             ELSE IF promoter_status # "PAID"
                  THEN "AWAITING PROMOTER PAYMENT"
             ELSE "IN PROGRESS"]

\* calculate_show_settlement returns None for a show that is not in show_df
NoSettlement == [show_id |-> NoId]

\* calculate_show_settlement: row i of show_df and of invoice_df has id i
CalculateShowSettlement(show_id, show_df, invoice_df, handshake_df, outgoing_df) ==
    IF show_id \notin DOMAIN show_df THEN NoSettlement
    ELSE
    LET show == show_df[show_id]
        invoice_ids == {i \in DOMAIN invoice_df :
                           invoice_df[i].show_id = show_id}
        show_invoices ==
            SelectSeq(invoice_df, LAMBDA inv : inv.show_id = show_id)
        show_handshakes ==
            SelectSeq(handshake_df, LAMBDA h : h.invoice_id \in invoice_ids)
        show_outgoing ==
            SelectSeq(outgoing_df, LAMBDA payment : payment.show_id = show_id)
        Bucket(name) ==
            SelectSeq(show_outgoing,
                      LAMBDA payment :
                          PaymentBucket(payment.payment_type) = name)
        Paid(bucket) == SumOf(bucket, "amount", Len(bucket))
        Result(total_invoiced, total_received, artist_payments,
               hotel_payments, flight_payments, other_payments,
               net_artist_due) ==
            [show_id |-> show_id,
             artist |-> show.artist,
             artist_fee |-> Get(show, "artist_fee"),
             hotel_buyout |-> Get(show, "hotel_buyout"),
             flight_buyout |-> Get(show, "flight_buyout"),
             withholding_tax |-> Get(show, "withholding_tax"),
             total_invoiced |-> total_invoiced,
             total_received |-> total_received,
             outstanding_from_promoter |->
                 FSub(total_invoiced, total_received),
             artist_payments |-> artist_payments,
             hotel_payments |-> hotel_payments,
             flight_payments |-> flight_payments,
             other_payments |-> other_payments,
             total_paid_out |->
                 FAdd(FAdd(FAdd(artist_payments, hotel_payments),
                           flight_payments), other_payments),
             net_artist_due |-> net_artist_due,
             artist_paid |-> artist_payments,
             artist_balance |-> FSub(net_artist_due, artist_payments),
             agency_position |->
                 FSub(total_received,
                      FAdd(FAdd(FAdd(artist_payments, hotel_payments),
                                flight_payments), other_payments)),
             statuses |->
                 ShowStatuses(FSub(total_invoiced, total_received),
                              total_received,
                              FSub(net_artist_due, artist_payments),
                              artist_payments)]
    IN  Result(SumOf(show_invoices, "total_gross", Len(show_invoices)),
               IF show_invoices # <<>> /\ handshake_df # <<>>
               THEN FAdd(SumOf(show_handshakes, "bank_amount_applied",
                               Len(show_handshakes)),
                         SumOf(show_handshakes, "proxy_amount",
                               Len(show_handshakes)))
               ELSE 0,
               Paid(Bucket("artist")), Paid(Bucket("hotel")),
               Paid(Bucket("flight")), Paid(Bucket("other")),
               NetArtistDue(show))

-----------------------------------------------------------------------------
(* State machine of the matching engine *)

NoCall == [op |-> "none", ok |-> TRUE, ret |-> NoId, failed_write |-> 0]
NoRun == [kind |-> "none", success |-> TRUE, count |-> 0, duplicates |-> 0]

\* what the caller is shown of a run: the result tuple, and from its
\* message the number of duplicates
Report(run) == [kind |-> run.kind, success |-> run.success,
                count |-> run.count, duplicates |-> Len(run.duplicates)]

NoPair == [stage |-> "none", handshake_id |-> NoId, bank_id |-> NoId,
           invoice_id |-> NoId, invoice |-> <<>>, matched |-> <<>>]

\* the callers that may be inside the matching engine at once, and a caller
\* that is in no call
Procs == {1, 2}
Idle == [pc |-> "idle"]

Init ==
    /\ procs = [p \in Procs |-> Idle]
    /\ invoices = <<>>
    /\ bank_transactions = <<>>
    /\ handshakes = {}
    /\ handshake_seq = 0
    /\ contracts = <<>>
    /\ shows = <<>>
    /\ invoice_items = <<>>
    /\ settlements = <<>>
    /\ lastRun = NoRun
    /\ lastCall = NoCall
    /\ pair = NoPair

\* an invoice reaches the table through create_invoice
ImportInvoice(invoice_number, total_gross) ==
    /\ Len(invoices) < MaxInvoices
    /\ \E r \in {CreateInvoice(invoices, invoice_items,
                             [invoice_number |-> invoice_number,
                              contract_number |-> "", show_id |-> NoId,
                              total_gross |-> total_gross],
                             <<[account_code |-> "Invoice Total",
                                gross |-> total_gross]>>)} :
           /\ invoices' = r.invoices
           /\ invoice_items' = r.items
           /\ lastCall' = [NoCall EXCEPT !.op = "create_invoice",
                                         !.ok = (r.ret # NoId),
                                         !.ret = r.ret]
    /\ pair' = NoPair
    /\ UNCHANGED <<bank_transactions, handshakes, handshake_seq, contracts,
                   shows, lastRun, settlements, procs>>

\* a bank transaction reaches the table with is_matched at its default
ImportBankRow(tx) ==
    /\ Len(bank_transactions) < MaxBank
    /\ \E r \in {CreateBankTransaction(bank_transactions, tx)} :
           /\ bank_transactions' = r.bank
           /\ lastCall' = [NoCall EXCEPT !.op = "create_bank_transaction",
                                         !.ok = (r.ret # NoId),
                                         !.ret = r.ret]
    /\ pair' = NoPair
    /\ UNCHANGED <<invoices, handshakes, handshake_seq, contracts, shows,
                   invoice_items, lastRun, settlements, procs>>

CreateHandshake(bank_id, invoice_id, applied, proxy, fault) ==
    /\ handshake_seq < MaxHandshakeId
    /\ \E r \in {CreateHandshakeTxn(Db, bank_id, invoice_id, applied, proxy, fault)} :
           /\ invoices' = r.db.invoices
           /\ bank_transactions' = r.db.bank
           /\ handshakes' = r.db.handshakes
           /\ handshake_seq' = r.db.seq
           /\ lastCall' = [op |-> "create_handshake", ok |-> (r.ret # NoId),
                           ret |-> r.ret,
                           failed_write |-> FailedWrite(Db, bank_id, invoice_id, fault)]
           /\ pair' = IF r.ret = NoId \/ bank_id \notin DOMAIN bank_transactions
                         \/ invoice_id \notin DOMAIN invoices
                      THEN NoPair
                      ELSE [stage |-> "created", handshake_id |-> r.ret,
                            bank_id |-> bank_id, invoice_id |-> invoice_id,
                            invoice |-> <<invoices[invoice_id]>>,
                            matched |-> <<bank_transactions[bank_id].is_matched>>]
    /\ UNCHANGED <<contracts, shows, invoice_items, lastRun, settlements,
                   procs>>

DeleteHandshake(handshake_id) ==
    \E r \in {DeleteHandshakeTxn(Db, handshake_id)} :
        /\ UNCHANGED <<contracts, shows, invoice_items, lastRun, settlements,
                       procs>>
        /\ invoices' = r.db.invoices
        /\ bank_transactions' = r.db.bank
        /\ handshakes' = r.db.handshakes
        /\ handshake_seq' = r.db.seq
        /\ lastCall' = [op |-> "delete_handshake", ok |-> r.ret,
                        ret |-> handshake_id, failed_write |-> 0]
        /\ pair' = IF pair.stage = "created" /\ pair.handshake_id = handshake_id
                   THEN [pair EXCEPT !.stage = "deleted"]
                   ELSE NoPair

\* the bank transactions the matching engine is run on
BankTransactions ==
    {[date |-> "2025-01-15", description |-> "PAYMENT", amount |-> a] :
        a \in {5, -5}}

\* The calls of create_handshake tried in a state: every bank id and invoice
\* id up to one past the last row (0 is None), every amount, every fault.  A
\* call that fails commits nothing of its amounts, so the failing calls are
\* tried with one pair of amounts.
CreateHandshakeCalls ==
    {c \in (0 .. Len(bank_transactions) + 1) \X (0 .. Len(invoices) + 1)
            \X AppliedAmounts \X ProxyAmounts \X (0 .. 3) :
        FailedWrite(Db, c[1], c[2], c[5]) # 0 =>
            /\ \A a \in AppliedAmounts : c[3] >= a
            /\ \A q \in ProxyAmounts : c[4] <= q}

MatchNext ==
    \/ \E n \in InvoiceNumbers, t \in Totals : ImportInvoice(n, t)
    \/ \E tx \in BankTransactions : ImportBankRow(tx)
    \/ \E c \in CreateHandshakeCalls :
            CreateHandshake(c[1], c[2], c[3], c[4], c[5])
    \/ \E h \in 1 .. handshake_seq + 1 : DeleteHandshake(h)

SpecMatch == Init /\ [][MatchNext]_vars

-----------------------------------------------------------------------------
(* State machine of the import runs *)

\* the sequences over S of at most n elements
SeqsUpTo(S, n) == UNION {[1 .. k -> S] : k \in 0 .. n}

\* the files an importer is given: every sequence of rows under each of
\* the headers, one row under each of the other headers, and a source that
\* cannot be read
Unreadable == [readable |-> FALSE, header |-> <<>>, rows |-> <<>>]

Files(headers, rows, others, row) ==
    {[readable |-> TRUE, header |-> h, rows |-> r] :
        h \in headers, r \in SeqsUpTo(rows, MaxFileRows)}
    \cup {[readable |-> TRUE, header |-> h, rows |-> <<row>>] : h \in others}
    \cup {Unreadable}

BankRow(date, description, credit, debit) ==
    "Date" :> date @@ "Description" :> description
        @@ "Paid In" :> credit @@ "Paid Out" :> debit

\* rows of a bank file: a credit, a debit, a row whose amounts cancel
BankRowChoices ==
    {BankRow("2025-01-15", "PAYMENT", "5.00", "nan"),
     BankRow("2025-01-15", "PAYMENT", "", "£5.00"),
     BankRow("2025-01-15", "PAYMENT", "5.00", "£5.00")}

\* headers of a bank file: all columns, no date column, no description
\* column
BankHeaders == {<<"Date", "Description", "Paid In", "Paid Out">>}
BankHeadersIncomplete ==
    {<<"Description", "Paid In", "Paid Out">>, <<"Date", "Paid In", "Paid Out">>}

BankFiles ==
    Files(BankHeaders, BankRowChoices, BankHeadersIncomplete,
          BankRow("2025-01-15", "PAYMENT", "5.00", "nan"))

BankImport(file) ==
    /\ \E r \in {ImportTransactions(file, bank_transactions)} :
           /\ bank_transactions' = r.bank
           /\ lastRun' = Report(r.run)
    /\ lastCall' = NoCall
    /\ pair' = NoPair
    /\ UNCHANGED <<invoices, handshakes, handshake_seq, contracts, shows,
                   invoice_items, settlements, procs>>

BankImportNext == \E file \in BankFiles : BankImport(file)

ContractRow(contract_number, artist) ==
    "Contract Number" :> contract_number @@ "Artist" :> artist

\* rows of a contract file: a contract with its artist, one whose artist
\* cell is empty, a row without contract number
ContractRowChoices ==
    {ContractRow("910516", "Minna"),
     ContractRow("910517", ""),
     ContractRow("", "Minna")}

ContractHeaders == {<<"Contract Number", "Artist">>}
ContractHeadersIncomplete == {<<"Artist">>}

ContractFiles ==
    Files(ContractHeaders, ContractRowChoices, ContractHeadersIncomplete,
          ContractRow("910516", "Minna"))

ContractImport(file) ==
    /\ \E r \in {ImportContracts(file, contracts, shows)} :
           /\ contracts' = r.contracts
           /\ shows' = r.shows
           /\ lastRun' = Report(r.run)
    /\ lastCall' = NoCall
    /\ pair' = NoPair
    /\ UNCHANGED <<invoices, bank_transactions, handshakes, handshake_seq,
                   invoice_items, settlements, procs>>

ContractImportNext == \E file \in ContractFiles : ContractImport(file)

\* a row of an invoice file; the amount stands in the Gross and in the Value
\* column, whichever the header has
InvoiceRow(invoice_number, contract_number, account_code, amount, total) ==
    "Invoice Number" :> invoice_number @@ "Contract Number" :> contract_number
        @@ "AccountCode" :> account_code @@ "Gross" :> amount
        @@ "Value" :> amount @@ "Total" :> total

\* rows of an invoice file: two line items of one invoice whose headers
\* differ, and a row of another invoice without account code
InvoiceRowChoices ==
    {InvoiceRow("INV-1", "910516", "Booking Fee", "5.00", "10.00"),
     InvoiceRow("INV-1", "", "Booking Fee", "£5.00", "10.00"),
     InvoiceRow("INV-2", "910517", "", "5.00", "5.00")}

\* headers of an invoice file: long format, simple format
InvoiceHeaders ==
    {<<"Invoice Number", "Contract Number", "AccountCode", "Gross">>,
     <<"Invoice Number", "Contract Number", "Value">>}

\* long format with a total column ahead of the gross column
InvoiceHeadersWithTotal ==
    {<<"Invoice Number", "Contract Number", "AccountCode", "Total", "Gross">>}

\* no invoice number column; long format without gross column; neither
\* account code nor value column
InvoiceHeadersIncomplete ==
    {<<"Contract Number", "AccountCode", "Gross">>,
     <<"Invoice Number", "AccountCode">>,
     <<"Invoice Number", "Gross">>}

InvoiceFiles ==
    Files(InvoiceHeaders, InvoiceRowChoices,
          InvoiceHeadersWithTotal \cup InvoiceHeadersIncomplete,
          InvoiceRow("INV-1", "910516", "Booking Fee", "5.00", "10.00"))

InvoiceImport(file) ==
    /\ \E r \in {ImportInvoices(file, invoices, invoice_items, shows)} :
           /\ invoices' = r.invoices
           /\ invoice_items' = r.items
           /\ lastRun' = Report(r.run)
    /\ lastCall' = NoCall
    /\ pair' = NoPair
    /\ UNCHANGED <<bank_transactions, handshakes, handshake_seq, contracts,
                   shows, settlements, procs>>

InvoiceImportNext == \E file \in InvoiceFiles : InvoiceImport(file)

ImportNext == BankImportNext \/ ContractImportNext \/ InvoiceImportNext

SpecImport == Init /\ [][ImportNext]_vars

------------------------------------------------------------------------------
(* State machine of the settlements *)

\* amounts due and paid, as the callers compute them
SettlementAmounts == {0, 5, 10}

\* the names typed into the confirmation field
Confirmers == {"Ana", "Ben"}

\* the ids a caller may pass: the rows of the table and one past them
SettlementIds == 1..(Len(settlements) + 1)

\* the updates a caller may pass: any of the two amounts, or neither
Updates ==
    UNION {[keys -> SettlementAmounts] :
               keys \in SUBSET {"amount_due", "amount_paid"}}

\* Settlement page, Create Settlement Record: offered for a show that has
\* no settlement yet; the status is Pending while a balance is left
CreateSettlementRecord(show_id, amount_due, amount_paid) ==
    /\ show_id \in DOMAIN shows
    /\ \A i \in DOMAIN settlements : settlements[i].show_id # show_id
    /\ \E r \in {CreateSettlement(settlements, shows,
                      [show_id |-> show_id,
                       artist |-> shows[show_id].artist,
                       amount_due |-> amount_due,
                       amount_paid |-> amount_paid,
                       status |-> IF FSub(amount_due, amount_paid) > 0
                                  THEN "Pending" ELSE "Paid"])} :
           settlements' = r.settlements
    /\ UNCHANGED <<invoices, bank_transactions, handshakes, handshake_seq,
                   contracts, shows, invoice_items, lastRun, lastCall, pair,
                   procs>>

SettlementUpdate(settlement_id, updates) ==
    /\ settlements' = UpdateSettlement(settlements, settlement_id,
                                       updates).settlements
    /\ UNCHANGED <<invoices, bank_transactions, handshakes, handshake_seq,
                   contracts, shows, invoice_items, lastRun, lastCall, pair,
                   procs>>

SettlementConfirm(settlement_id, confirmed_by) ==
    /\ settlements' = ConfirmSettlement(settlements, settlement_id,
                                        confirmed_by).settlements
    /\ UNCHANGED <<invoices, bank_transactions, handshakes, handshake_seq,
                   contracts, shows, invoice_items, lastRun, lastCall, pair,
                   procs>>

SettlementNext ==
    \/ ContractImportNext
    \/ \E show_id \in DOMAIN shows, due \in SettlementAmounts,
          paid \in SettlementAmounts :
           CreateSettlementRecord(show_id, due, paid)
    \/ \E id \in SettlementIds, updates \in Updates :
           SettlementUpdate(id, updates)
    \/ \E id \in SettlementIds, by \in Confirmers :
           SettlementConfirm(id, by)

SpecSettlement == Init /\ [][SettlementNext]_vars

------------------------------------------------------------------------------
(* State machine of the calculations *)

\* the floats of magnitude up to MaxAmount
Amounts == {RoundReal(n) : n \in (-MaxAmount)..MaxAmount}

PaymentStatusCall(applied_amount, total_amount) ==
    /\ lastCall' = [op |-> "calculate_payment_status",
                    applied_amount |-> applied_amount,
                    total_amount |-> total_amount,
                    ret |-> CalculatePaymentStatus(applied_amount,
                                                   total_amount)]
    /\ UNCHANGED <<invoices, bank_transactions, handshakes, handshake_seq,
                   contracts, shows, invoice_items, settlements, lastRun,
                   pair, procs>>

\* the snapshots handed to calculate_show_settlement: one show, with its
\* deal terms or without; invoices of the show and of no show; handshakes
\* on both invoices; outgoing payments of every bucket
ShowSnapshots ==
    {<<[artist |-> "Minna", artist_fee |-> 10, hotel_buyout |-> 0,
        flight_buyout |-> 0, withholding_tax |-> 0]>>,
     <<[artist |-> "Minna", artist_fee |-> 10, hotel_buyout |-> 5,
        flight_buyout |-> 1, withholding_tax |-> 1]>>,
     <<[artist |-> "Minna"]>>}

InvoiceSnapshots ==
    {<<>>,
     <<[show_id |-> 1, total_gross |-> 5]>>,
     <<[show_id |-> 1, total_gross |-> 5], [show_id |-> NoId,
                                            total_gross |-> 5]>>,
     <<[show_id |-> 1, total_gross |-> 10]>>}

HandshakeSnapshots ==
    {<<>>,
     <<[invoice_id |-> 1, bank_amount_applied |-> 5, proxy_amount |-> -1]>>,
     <<[invoice_id |-> 1, bank_amount_applied |-> 5, proxy_amount |-> 0],
       [invoice_id |-> 2, bank_amount_applied |-> 5, proxy_amount |-> 0]>>}

OutgoingSnapshots ==
    {<<>>,
     <<[show_id |-> 1, payment_type |-> "Artist Fee", amount |-> 5]>>,
     <<[show_id |-> 1, payment_type |-> "Artist Hotel", amount |-> 1],
       [show_id |-> 1, payment_type |-> "Hotel", amount |-> 5]>>,
     <<[show_id |-> 1, payment_type |-> "Flight", amount |-> 1],
       [show_id |-> 1, payment_type |-> "Other", amount |-> 1],
       [show_id |-> NoId, payment_type |-> "Hotel", amount |-> 5]>>}

ShowSettlementCall(show_id, show_df, invoice_df, handshake_df, outgoing_df) ==
    /\ lastCall' = [op |-> "calculate_show_settlement",
                    show_id |-> show_id,
                    show_df |-> show_df,
                    invoice_df |-> invoice_df,
                    handshake_df |-> handshake_df,
                    outgoing_df |-> outgoing_df,
                    ret |-> CalculateShowSettlement(show_id, show_df,
                                                    invoice_df, handshake_df,
                                                    outgoing_df)]
    /\ UNCHANGED <<invoices, bank_transactions, handshakes, handshake_seq,
                   contracts, shows, invoice_items, settlements, lastRun,
                   pair, procs>>

CalcNext ==
    \/ \E applied_amount \in Amounts, total_amount \in Amounts :
           PaymentStatusCall(applied_amount, total_amount)
    \/ \E show_id \in 1..2, show_df \in ShowSnapshots,
          invoice_df \in InvoiceSnapshots,
          handshake_df \in HandshakeSnapshots,
          outgoing_df \in OutgoingSnapshots :
           ShowSettlementCall(show_id, show_df, invoice_df, handshake_df,
                              outgoing_df)

SpecCalc == Init /\ [][CalcNext]_vars

-----------------------------------------------------------------------------
(* Properties of the matching engine *)

Range(f) == {f[x] : x \in DOMAIN f}

\* the handshakes of an invoice summed in the order of their ids, as floats
RECURSIVE HandshakeSum(_, _)
HandshakeSum(invoice_id, k) ==
    IF k = 0 THEN 0
    ELSE LET rows == {h \in handshakes :
                        h.handshake_id = k /\ h.invoice_id = invoice_id}
         IN  IF rows = {} THEN HandshakeSum(invoice_id, k - 1)
             ELSE LET h == CHOOSE x \in rows : TRUE
                  IN  FAdd(HandshakeSum(invoice_id, k - 1),
                           FAdd(h.bank_amount_applied, h.proxy_amount))

\* C1: every invoice's paid_amount equals the sum of applied + proxy over
\* the handshakes that reference it.
PaidAmountIsHandshakeSum ==
    \A i \in DOMAIN invoices :
        invoices[i].paid_amount = HandshakeSum(i, handshake_seq)

\* C2: a bank transaction is flagged matched exactly when some handshake
\* references it.
MatchedIffHandshake ==
    \A b \in DOMAIN bank_transactions :
        bank_transactions[b].is_matched <=>
            (\E h \in handshakes : h.bank_id = b)

\* a handshake was deleted and its bank transaction, which keeps another
\* handshake, is still matched
MatchedIffHandshakeWitness ==
    /\ lastCall.op = "delete_handshake"
    /\ lastCall.ok
    /\ \E b \in DOMAIN bank_transactions :
          /\ bank_transactions[b].is_matched
          /\ Cardinality({h \in handshakes : h.bank_id = b}) = 1

\* C3: create_handshake immediately followed by delete_handshake of the
\* handshake it made leaves the invoice's paid_amount, balance_remaining and
\* is_paid and the bank transaction's matched flag as they were.
HandshakeInverseLaw ==
    pair.stage = "deleted" =>
        /\ invoices[pair.invoice_id].paid_amount = pair.invoice[1].paid_amount
        /\ invoices[pair.invoice_id].balance_remaining
               = pair.invoice[1].balance_remaining
        /\ invoices[pair.invoice_id].is_paid = pair.invoice[1].is_paid
        /\ bank_transactions[pair.bank_id].is_matched = pair.matched[1]

\* C4: every invoice has balance_remaining = total_gross - paid_amount.
BalanceIsTotalMinusPaid ==
    \A i \in DOMAIN invoices :
        invoices[i].balance_remaining
            = FSub(invoices[i].total_gross, invoices[i].paid_amount)

\* an invoice that handshakes have been applied to and taken from
BalanceIsTotalMinusPaidWitness ==
    /\ lastCall.op = "delete_handshake"
    /\ lastCall.ok
    /\ \E i \in DOMAIN invoices :
          /\ invoices[i].paid_amount # 0
          /\ invoices[i].total_gross # 0

\* C5: an invoice's is_paid flag is true exactly when paid_amount >=
\* total_gross, from its creation on.
IsPaidIffPaidCoversTotal ==
    \A i \in DOMAIN invoices :
        invoices[i].is_paid <=>
            (invoices[i].paid_amount >= invoices[i].total_gross)

\* C6: a create_handshake one of whose writes fails returns None and leaves
\* the handshakes, the bank transactions and the invoices as they were.
CreateHandshakeAllOrNothing ==
    [][(lastCall'.op = "create_handshake" /\ lastCall'.failed_write # 0) =>
          /\ lastCall'.ret = NoId
          /\ handshakes' = handshakes
          /\ bank_transactions' = bank_transactions
          /\ invoices' = invoices]_vars

\* the invoice update of a create_handshake on existing rows failed, with
\* handshakes already in the table
CreateHandshakeAllOrNothingWitness ==
    /\ lastCall.op = "create_handshake"
    /\ lastCall.failed_write = 3
    /\ lastCall.ret = NoId
    /\ handshakes # {}

\* C7: delete_handshake of an id no handshake has returns False and leaves
\* the handshakes, the bank transactions and the invoices as they were.
DeleteMissingHandshakeIsBenign ==
    [][(/\ lastCall'.op = "delete_handshake"
        /\ \A h \in handshakes : h.handshake_id # lastCall'.ret) =>
          /\ ~lastCall'.ok
          /\ handshakes' = handshakes
          /\ bank_transactions' = bank_transactions
          /\ invoices' = invoices]_vars

\* a delete_handshake was refused while handshakes exist
DeleteMissingHandshakeIsBenignWitness ==
    /\ lastCall.op = "delete_handshake"
    /\ ~lastCall.ok
    /\ handshakes # {}
    /\ \E i \in DOMAIN invoices : invoices[i].paid_amount # 0

-----------------------------------------------------------------------------
(* Properties of the import runs *)

\* C8: a bank file imported a second time inserts nothing: whatever table
\* a bank run has left when the first run starts, the second run of the same
\* file counts zero inserts, leaves the table as the first run left it, and
\* reports as duplicates every row the first run inserted.
BankImportIdempotent ==
    lastRun.kind = "bank" =>
    \A file \in BankFiles :
        \A first \in {ImportTransactions(file, bank_transactions)} :
            \A again \in {ImportTransactions(file, first.bank)} :
                /\ again.run.count = 0
                /\ again.bank = first.bank
                /\ Range(first.run.inserted)
                       \subseteq Range(again.run.duplicates)

\* a run over a file whose two rows the table already held: nothing
\* inserted, both rows reported as duplicates
BankImportIdempotentWitness ==
    /\ lastRun.kind = "bank"
    /\ lastRun.count = 0
    /\ lastRun.duplicates = 2
    /\ bank_transactions # <<>>

\* C9: after any sequence of import runs no two stored bank transactions
\* share the fingerprint of date, amount and description, no two stored
\* contracts share a contract number, and no two stored invoices share an
\* invoice number.
NoSharedDuplicateKey ==
    /\ \A a, b \in DOMAIN bank_transactions :
           bank_transactions[a].transaction_hash
               = bank_transactions[b].transaction_hash => a = b
    /\ \A a, b \in DOMAIN contracts :
           contracts[a].contract_number = contracts[b].contract_number
               => a = b
    /\ \A a, b \in DOMAIN invoices :
           invoices[a].invoice_number = invoices[b].invoice_number => a = b

\* every table holds two records and the last run met a record that was
\* already stored
NoSharedDuplicateKeyWitness ==
    /\ Len(bank_transactions) = 2
    /\ Len(contracts) = 2
    /\ Len(invoices) = 2
    /\ lastRun.duplicates > 0

\* C10: every contract the importer has stored points through show_id at a
\* show with the contract's number, status Contracted and settlement status
\* Pending, and that show is the only one with the number.
EveryContractHasItsShow ==
    \A c \in DOMAIN contracts :
        /\ contracts[c].show_id \in DOMAIN shows
        /\ shows[contracts[c].show_id].contract_number
               = contracts[c].contract_number
        /\ shows[contracts[c].show_id].status = "Contracted"
        /\ shows[contracts[c].show_id].settlement_status = "Pending"
        /\ \A x \in DOMAIN shows :
               shows[x].contract_number = contracts[c].contract_number
                   => x = contracts[c].show_id

\* the invoice_items rows of an invoice, in the order of their item_id
ItemsOf(invoice_id) ==
    SelectSeq(invoice_items, LAMBDA item : item.invoice_id = invoice_id)

\* C11: every invoice the importer has stored has at least one line item,
\* every stored line item belongs to a stored invoice, and the header's
\* total_gross is the sum of the gross amounts of the invoice's line items.
InvoiceTotalIsItemSum ==
    /\ \A i \in DOMAIN invoices :
           /\ ItemsOf(i) # <<>>
           /\ invoices[i].total_gross = SumGross(ItemsOf(i), Len(ItemsOf(i)))
    /\ \A k \in DOMAIN invoice_items :
           invoice_items[k].invoice_id \in DOMAIN invoices

\* an invoice stored with two line items of 5 and the total 10
InvoiceTotalIsItemSumWitness ==
    \E i \in DOMAIN invoices :
        /\ Len(ItemsOf(i)) = 2
        /\ invoices[i].total_gross = 10
        /\ lastRun.kind = "invoice"

\* the files of a set whose header lacks a required column
Incomplete(files, headers) == {f \in files : f.header \in headers}

\* C12: an import of a file that lacks a required column returns a failure
\* and inserts nothing, whatever the tables hold: bank transactions,
\* contracts, shows, invoices and line items stay as they are.
MissingColumnAborts ==
    /\ \A f \in Incomplete(BankFiles, BankHeadersIncomplete) :
           \A r \in {ImportTransactions(f, bank_transactions)} :
               ~r.run.success /\ r.bank = bank_transactions
    /\ \A f \in Incomplete(ContractFiles, ContractHeadersIncomplete) :
           \A r \in {ImportContracts(f, contracts, shows)} :
               /\ ~r.run.success
               /\ r.contracts = contracts
               /\ r.shows = shows
    /\ \A f \in Incomplete(InvoiceFiles, InvoiceHeadersIncomplete) :
           \A r \in {ImportInvoices(f, invoices, invoice_items, shows)} :
               /\ ~r.run.success
               /\ r.invoices = invoices
               /\ r.items = invoice_items

\* a contract run that failed while every table holds records, reported
\* as the run of a file without the contract number column is
MissingColumnAbortsWitness ==
    /\ lastRun.kind = "contract"
    /\ ~lastRun.success
    /\ \E f \in Incomplete(ContractFiles, ContractHeadersIncomplete) :
           \A r \in {ImportContracts(f, contracts, shows)} :
               r.run.error = "missing column" /\ Report(r.run) = lastRun
    /\ bank_transactions # <<>>
    /\ contracts # <<>>
    /\ invoices # <<>>

\* the errors of a run that ended before any row was read
FatalErrors == {"unreadable", "missing column"}

\* C13: an import run reports failure only when the source is unreadable or
\* a required column is missing: whatever the tables hold, a bank, contract
\* or invoice file that has rows and was read to its last row is reported
\* as a success, also when every row was a duplicate or was skipped.
FailureOnlyWhenFatal ==
    /\ \A f \in BankFiles :
           \A r \in {ImportTransactions(f, bank_transactions)} :
               f.rows # <<>> /\ ~r.run.success => r.run.error \in FatalErrors
    /\ \A f \in ContractFiles :
           \A r \in {ImportContracts(f, contracts, shows)} :
               f.rows # <<>> /\ ~r.run.success => r.run.error \in FatalErrors
    /\ \A f \in InvoiceFiles :
           \A r \in {ImportInvoices(f, invoices, invoice_items, shows)} :
               f.rows # <<>> /\ ~r.run.success => r.run.error \in FatalErrors

------------------------------------------------------------------------------
(* Properties of the settlements *)

\* the place of a status in the order Pending, Partial, Paid, Confirmed
StatusRank(status) ==
    CASE status = "Pending" -> 1
      [] status = "Partial" -> 2
      [] status = "Paid" -> 3
      [] status = "Confirmed" -> 4

\* C14: Confirmed is terminal: no step of update_settlement or
\* confirm_settlement takes a settlement whose status is Confirmed to
\* another status.
ConfirmedIsTerminal ==
    [][\A i \in DOMAIN settlements :
           settlements[i].status = "Confirmed"
               => settlements'[i].status = "Confirmed"]_vars

\* C15: the status only moves forward: no step takes a settlement to a
\* status that stands earlier in the order Pending, Partial, Paid, Confirmed
\* than the status it had.
StatusMovesForward ==
    [][\A i \in DOMAIN settlements :
           StatusRank(settlements'[i].status)
               >= StatusRank(settlements[i].status)]_vars

\* C16: an update_settlement that sets amount_paid or amount_due on a
\* settlement that is not Confirmed leaves the status the resulting amounts
\* dictate: Paid when paid >= due, Partial when 0 < paid < due, Pending
\* when paid = 0 and due > 0.
UpdateSetsDictatedStatus ==
    \A i \in DOMAIN settlements, updates \in Updates :
        settlements[i].status # "Confirmed" /\ DOMAIN updates # {} =>
            \A row \in {UpdateSettlement(settlements, i,
                                          updates).settlements[i]} :
                /\ row.amount_paid >= row.amount_due => row.status = "Paid"
                /\ 0 < row.amount_paid /\ row.amount_paid < row.amount_due
                       => row.status = "Partial"
                /\ row.amount_paid = 0 /\ row.amount_due > 0
                       => row.status = "Pending"

\* C17: confirm_settlement on a stored settlement returns True and leaves
\* it Confirmed with the confirming person and the time of the call,
\* whatever its status and amounts were; amount_due, amount_paid, balance
\* and every other settlement stay as they were.
ConfirmAlwaysConfirms ==
    \A i \in DOMAIN settlements, by \in Confirmers :
        \A r \in {ConfirmSettlement(settlements, i, by)} :
            /\ r.ret
            /\ r.settlements[i].status = "Confirmed"
            /\ r.settlements[i].confirmed_by = by
            /\ r.settlements[i].confirmed_at = Now
            /\ r.settlements[i].amount_due = settlements[i].amount_due
            /\ r.settlements[i].amount_paid = settlements[i].amount_paid
            /\ r.settlements[i].balance = settlements[i].balance
            /\ \A j \in DOMAIN settlements \ {i} :
                   r.settlements[j] = settlements[j]

\* a confirmed settlement on which nothing is paid of a positive amount due
ConfirmAlwaysConfirmsWitness ==
    \E i \in DOMAIN settlements :
        /\ settlements[i].status = "Confirmed"
        /\ settlements[i].confirmed_by \in Confirmers
        /\ settlements[i].confirmed_at = Now
        /\ settlements[i].amount_paid = 0
        /\ settlements[i].amount_due > 0

------------------------------------------------------------------------------
(* Properties of the calculations *)

\* C19: calculate_payment_status returns the first case that matches, in
\* this order: UNPAID if |applied| < tolerance, PART PAID if
\* applied + tolerance < total, PAID if |applied - total| <= tolerance,
\* OVERPAID otherwise.
PaymentStatusIsFirstMatchingCase ==
    lastCall.op = "calculate_payment_status" =>
        lastCall.ret =
            IF Abs(lastCall.applied_amount) < AMOUNT_TOLERANCE THEN "UNPAID"
            ELSE IF lastCall.applied_amount + AMOUNT_TOLERANCE
                        < lastCall.total_amount
                 THEN "PART PAID"
            ELSE IF Abs(lastCall.applied_amount - lastCall.total_amount)
                        <= AMOUNT_TOLERANCE
                 THEN "PAID"
            ELSE "OVERPAID"

OverallStatusFollowsBothSides ==
    lastCall.op = "calculate_show_settlement" /\ lastCall.ret # NoSettlement =>
        \A st \in {lastCall.ret.statuses} :
            /\ st.promoter_status = "PAID"
                   <=> lastCall.ret.outstanding_from_promoter
                           <= AMOUNT_TOLERANCE
            /\ lastCall.ret.total_invoiced = 0 /\ lastCall.ret.total_received = 0
                   => st.promoter_status = "PAID"
            /\ st.overall_status =
                   IF st.promoter_status = "PAID"
                   THEN IF st.artist_status = "SETTLED" THEN "COMPLETE"
                        ELSE "AWAITING ARTIST PAYMENT"
                   ELSE "AWAITING PROMOTER PAYMENT"

\* a call for a show with part of its invoice received and the artist's
\* balance settled: the promoter side alone decides
OverallStatusFollowsBothSidesWitness ==
    /\ lastCall.op = "calculate_show_settlement"
    /\ lastCall.ret # NoSettlement
    /\ lastCall.ret.statuses.promoter_status = "PART PAID"
    /\ lastCall.ret.statuses.artist_status = "SETTLED"
    /\ lastCall.ret.statuses.overall_status = "AWAITING PROMOTER PAYMENT"

-----------------------------------------------------------------------------
(* Match page: one bank payment approved against a selection of invoices *)

MaxPageInvoices == 2
MaxPageBank == 2
MaxPageHandshakes == 4

\* the smaller of two floats
Min(a, b) == IF a <= b THEN a ELSE b

\* available_bank: the payments in that no handshake refers to
AvailableBank(db) ==
    {b \in DOMAIN db.bank :
        db.bank[b].amount > 0 /\ \A h \in db.handshakes : h.bank_id # b}

\* available_invoices: the invoices whose is_paid is not 1
AvailableInvoices(db) == {i \in DOMAIN db.invoices : ~db.invoices[i].is_paid}

\* the loop of the Approve Match(es) button from the idx-th selected invoice
\* on; remaining_bank is decremented after a handshake that was created
RECURSIVE ApproveLoop(_, _, _, _, _, _)
ApproveLoop(db, bank_id, selected_invoices, proxy_amount, idx, remaining_bank) ==
    IF idx > Len(selected_invoices) THEN db
    ELSE
    LET inv_id == selected_invoices[idx]
        Step(amount_to_apply, this_proxy) ==
            LET result == CreateHandshakeTxn(db, bank_id, inv_id,
                                             amount_to_apply, this_proxy, 0)
            IN  ApproveLoop(result.db, bank_id, selected_invoices,
                            proxy_amount, idx + 1,
                            IF result.ret # NoId
                            THEN FSub(remaining_bank, amount_to_apply)
                            ELSE remaining_bank)
    IN  Step(Min(remaining_bank, db.invoices[inv_id].total_gross),
             IF idx = 1 THEN proxy_amount ELSE 0)

\* the orders in which the multiselect can hold a set of invoices
Selections(ids) ==
    {s \in UNION {[1 .. n -> ids] : n \in 1 .. Cardinality(ids)} :
        \A i, j \in DOMAIN s : i # j => s[i] # s[j]}

\* the Approve Match(es) button
ApproveMatches(bank_id, selected_invoices, proxy_amount) ==
    /\ bank_id \in AvailableBank(Db)
    /\ selected_invoices \in Selections(AvailableInvoices(Db))
    /\ handshake_seq + Len(selected_invoices) <= MaxPageHandshakes
    /\ \E db \in {ApproveLoop(Db, bank_id, selected_invoices, proxy_amount, 1,
                              bank_transactions[bank_id].amount)} :
           /\ invoices' = db.invoices
           /\ bank_transactions' = db.bank
           /\ handshakes' = db.handshakes
           /\ handshake_seq' = db.seq
    /\ lastCall' = [op |-> "approve_matches", bank_id |-> bank_id,
                    bank_amount |-> bank_transactions[bank_id].amount,
                    selected_invoices |-> selected_invoices,
                    proxy_amount |-> proxy_amount, first |-> handshake_seq]
    /\ pair' = NoPair
    /\ UNCHANGED <<contracts, shows, invoice_items, lastRun, settlements,
                   procs>>

\* the invoices and payments the page is shown
PageTotals == {1, 5, 12}
PagePayments ==
    {[date |-> "2025-01-15", description |-> "PAYMENT", amount |-> a] :
        a \in {5, 12}}

PageInvoice(invoice_number, total_gross) ==
    /\ Len(invoices) < MaxPageInvoices
    /\ \E r \in {CreateInvoice(invoices, invoice_items,
                             [invoice_number |-> invoice_number,
                              contract_number |-> "", show_id |-> NoId,
                              total_gross |-> total_gross],
                             <<[account_code |-> "Invoice Total",
                                gross |-> total_gross]>>)} :
           /\ r.ret # NoId
           /\ invoices' = r.invoices
           /\ invoice_items' = r.items
           /\ lastCall' = [NoCall EXCEPT !.op = "create_invoice", !.ret = r.ret]
    /\ pair' = NoPair
    /\ UNCHANGED <<bank_transactions, handshakes, handshake_seq, contracts,
                   shows, lastRun, settlements, procs>>

PagePayment(tx) ==
    /\ Len(bank_transactions) < MaxPageBank
    /\ \E r \in {CreateBankTransaction(bank_transactions, tx)} :
           /\ r.ret # NoId
           /\ bank_transactions' = r.bank
           /\ lastCall' = [NoCall EXCEPT !.op = "create_bank_transaction",
                                         !.ret = r.ret]
    /\ pair' = NoPair
    /\ UNCHANGED <<invoices, handshakes, handshake_seq, contracts, shows,
                   invoice_items, lastRun, settlements, procs>>

PageNext ==
    \/ \E n \in InvoiceNumbers, t \in PageTotals : PageInvoice(n, t)
    \/ \E tx \in PagePayments : PagePayment(tx)
    \/ \E b \in DOMAIN bank_transactions, q \in ProxyAmounts :
         \E s \in Selections(DOMAIN invoices) : ApproveMatches(b, s, q)

SpecPage == Init /\ [][PageNext]_vars

\* the sum of the amounts a run of the button applied, in exact arithmetic
RECURSIVE AppliedSum(_)
AppliedSum(k) ==
    IF k = 0 THEN 0
    ELSE AppliedSum(k - 1)
         + (CHOOSE h \in handshakes :
                h.handshake_id = lastCall.first + k).bank_amount_applied

RECURSIVE SelectedTotal(_)
SelectedTotal(k) ==
    IF k = 0 THEN 0
    ELSE SelectedTotal(k - 1)
         + invoices[lastCall.selected_invoices[k]].total_gross

\* C22: a run of the Approve button on one bank payment and an ordered
\* selection of invoices leaves one handshake per selected invoice, in
\* order, each applying the smaller of what is left of the bank amount and
\* the invoice total, with the proxy on the first only; the applied amounts
\* never sum to more than the bank amount and sum to exactly the bank amount
\* when the invoice totals do.
SplitMatchConserves ==
    lastCall.op = "approve_matches" =>
        /\ handshake_seq = lastCall.first + Len(lastCall.selected_invoices)
        /\ \A k \in DOMAIN lastCall.selected_invoices :
             \E h \in handshakes :
                /\ h.handshake_id = lastCall.first + k
                /\ h.bank_id = lastCall.bank_id
                /\ h.invoice_id = lastCall.selected_invoices[k]
                /\ h.proxy_amount = (IF k = 1 THEN lastCall.proxy_amount ELSE 0)
                /\ h.bank_amount_applied =
                       Min(lastCall.bank_amount - AppliedSum(k - 1),
                           invoices[h.invoice_id].total_gross)
        /\ AppliedSum(Len(lastCall.selected_invoices)) <= lastCall.bank_amount
        /\ SelectedTotal(Len(lastCall.selected_invoices)) = lastCall.bank_amount
             => AppliedSum(Len(lastCall.selected_invoices)) = lastCall.bank_amount

\* C29: when every match was approved with proxy 0, no invoice has been
\* paid more than its total, whether in one match or in several.
PageNeverOverpays ==
    (\A h \in handshakes : h.proxy_amount = 0) =>
        \A i \in DOMAIN invoices :
            invoices[i].paid_amount <= invoices[i].total_gross

-----------------------------------------------------------------------------
(* End to end: the importers, the matching engine and the show settlement
   over the same tables *)

\* load_handshakes: the rows of the handshake table up to id k, latest first
RECURSIVE LoadHandshakes(_, _)
LoadHandshakes(hs, k) ==
    IF k = 0 THEN <<>>
    ELSE LET rows == {h \in hs : h.handshake_id = k}
         IN  (IF rows = {} THEN <<>> ELSE <<CHOOSE h \in rows : TRUE>>)
                 \o LoadHandshakes(hs, k - 1)

\* the files of the flow: one contract, invoices of 5 and of 10 carrying its
\* number, a credit of 5
FlowContractFiles ==
    {[readable |-> TRUE, header |-> h,
      rows |-> <<ContractRow("910516", "Minna")>>] : h \in ContractHeaders}

FlowInvoiceFiles ==
    {[readable |-> TRUE,
      header |-> <<"Invoice Number", "Contract Number", "AccountCode", "Gross">>,
      rows |-> <<r>>] :
        r \in {InvoiceRow("INV-1", "910516", "Booking Fee", "5.00", "5.00"),
               InvoiceRow("INV-2", "910516", "Booking Fee", "10.00", "10.00")}}

FlowBankFiles ==
    {[readable |-> TRUE, header |-> h, rows |-> <<r>>] :
        h \in BankHeaders,
        r \in {BankRow("2025-01-15", "PAYMENT", "5.00", "nan")}}

\* the calls of create_handshake of the flow: the storage layer does not fail
FlowHandshakeCalls == {c \in CreateHandshakeCalls : c[5] = 0}

FlowNext ==
    \/ \E file \in FlowContractFiles : ContractImport(file)
    \/ \E file \in FlowInvoiceFiles : InvoiceImport(file)
    \/ \E file \in FlowBankFiles : BankImport(file)
    \/ \E c \in FlowHandshakeCalls :
            CreateHandshake(c[1], c[2], c[3], c[4], c[5])
    \/ \E h \in 1 .. handshake_seq + 1 : DeleteHandshake(h)

SpecFlow == Init /\ [][FlowNext]_vars

\* C23: an invoice imported after the contract whose number it carries is
\* linked to the show of that contract; and with one show, one invoice of 5
\* linked to it, one credit of 5 and the one handshake applying 5 with proxy
\* 0, the invoice is paid with status PAID, the credit is matched, and the
\* settlement of the show reports promoter status PAID, 5 received and
\* nothing outstanding.
EndToEndPaid ==
    /\ [][\A i \in DOMAIN invoices' \ DOMAIN invoices :
            \A x \in DOMAIN shows :
                /\ invoices'[i].contract_number # ""
                /\ shows[x].contract_number = invoices'[i].contract_number
                => /\ invoices'[i].show_id \in DOMAIN shows
                   /\ shows[invoices'[i].show_id].contract_number
                          = invoices'[i].contract_number]_vars
    /\ [](/\ Len(shows) = 1 /\ Len(invoices) = 1 /\ Len(bank_transactions) = 1
          /\ handshake_seq = 1
          /\ handshakes = {[handshake_id |-> 1, bank_id |-> 1, invoice_id |-> 1,
                            bank_amount_applied |-> 5, proxy_amount |-> 0]}
          /\ invoices[1].show_id = 1
          /\ invoices[1].total_gross = 5
          /\ bank_transactions[1].amount = 5
          => /\ invoices[1].is_paid
             /\ CalculatePaymentStatus(invoices[1].paid_amount,
                                       invoices[1].total_gross) = "PAID"
             /\ bank_transactions[1].is_matched
             /\ \A r \in {CalculateShowSettlement(1, shows, invoices,
                             LoadHandshakes(handshakes, handshake_seq), <<>>)} :
                   /\ r.statuses.promoter_status = "PAID"
                   /\ r.total_received = 5
                   /\ r.outstanding_from_promoter = 0)

EndToEndPaidWitness ==
    /\ Len(shows) = 1 /\ Len(invoices) = 1 /\ Len(bank_transactions) = 1
    /\ invoices[1].show_id = 1
    /\ invoices[1].contract_number = shows[1].contract_number
    /\ invoices[1].total_gross = 5
    /\ bank_transactions[1].amount = 5
    /\ handshakes = {[handshake_id |-> 1, bank_id |-> 1, invoice_id |-> 1,
                      bank_amount_applied |-> 5, proxy_amount |-> 0]}
    /\ lastCall.op = "create_handshake" /\ lastCall.ok
    /\ invoices[1].is_paid

\* C27: for every show, the total received that the settlement computes from
\* the handshake table is the sum of the stored paid amounts of the show's
\* invoices, and the outstanding amount is the sum of their stored balances.
StoredAndComputedAgree ==
    \A x \in DOMAIN shows :
        \A r \in {CalculateShowSettlement(x, shows, invoices,
                      LoadHandshakes(handshakes, handshake_seq), <<>>)} :
            \A show_invoices \in {SelectSeq(invoices, LAMBDA inv : inv.show_id = x)} :
                /\ r.total_received =
                       SumOf(show_invoices, "paid_amount", Len(show_invoices))
                /\ r.outstanding_from_promoter =
                       SumOf(show_invoices, "balance_remaining", Len(show_invoices))

-----------------------------------------------------------------------------
(* The matching engine over tables of several rows *)

EngineNext ==
    \/ \E n \in InvoiceNumbers, t \in Totals : PageInvoice(n, t)
    \/ \E tx \in PagePayments : PagePayment(tx)
    \/ \E c \in CreateHandshakeCalls :
            CreateHandshake(c[1], c[2], c[3], c[4], c[5])
    \/ \E h \in 1 .. handshake_seq + 1 : DeleteHandshake(h)

SpecEngine == Init /\ [][EngineNext]_vars

\* C26: a call of create_handshake or delete_handshake adds or removes at
\* most one handshake and leaves every other one as it was; on the bank
\* transactions it changes nothing but is_matched of the one the handshake
\* refers to, on the invoices nothing but paid_amount, balance_remaining and
\* is_paid of the one the handshake refers to; the other tables stay as they
\* were.
MatchingEngineFrame ==
    [][lastCall'.op \in {"create_handshake", "delete_handshake"} =>
        \A touched \in {(handshakes' \ handshakes) \cup (handshakes \ handshakes')} :
            /\ Cardinality(touched) <= 1
            /\ lastCall'.op = "create_handshake" => handshakes \subseteq handshakes'
            /\ lastCall'.op = "delete_handshake" => handshakes' \subseteq handshakes
            /\ DOMAIN bank_transactions' = DOMAIN bank_transactions
            /\ \A b \in DOMAIN bank_transactions :
                  /\ bank_transactions'[b] =
                         [bank_transactions[b] EXCEPT
                             !.is_matched = bank_transactions'[b].is_matched]
                  /\ bank_transactions'[b] # bank_transactions[b]
                         => \E h \in touched : h.bank_id = b
            /\ DOMAIN invoices' = DOMAIN invoices
            /\ \A i \in DOMAIN invoices :
                  /\ invoices'[i] =
                         [invoices[i] EXCEPT
                             !.paid_amount = invoices'[i].paid_amount,
                             !.balance_remaining = invoices'[i].balance_remaining,
                             !.is_paid = invoices'[i].is_paid]
                  /\ invoices'[i] # invoices[i]
                         => \E h \in touched : h.invoice_id = i
            /\ UNCHANGED <<contracts, shows, invoice_items, settlements>>]_vars

\* a handshake created on the second of two bank transactions and one of two
\* invoices, the first bank transaction unmatched
MatchingEngineFrameWitness ==
    /\ lastCall.op = "create_handshake" /\ lastCall.ok
    /\ Len(bank_transactions) = 2 /\ Len(invoices) = 2
    /\ bank_transactions[2].is_matched /\ ~bank_transactions[1].is_matched
    /\ \E i, j \in DOMAIN invoices :
          invoices[i].paid_amount # 0 /\ invoices[j].paid_amount = 0

\* C30: an invoice whose stored is_paid is true has the payment status PAID
\* or OVERPAID.
PaidFlagMeansPaidStatus ==
    \A i \in DOMAIN invoices :
        invoices[i].is_paid =>
            CalculatePaymentStatus(invoices[i].paid_amount,
                                   invoices[i].total_gross)
                \in {"PAID", "OVERPAID"}


-----------------------------------------------------------------------------
(* The importers with the file of the run and its full report kept *)

\* BankImporter.import_transactions on a file
ImportBankFile(file) ==
    /\ \E r \in {ImportTransactions(file, bank_transactions)} :
           /\ bank_transactions' = r.bank
           /\ lastRun' = Report(r.run)
           /\ lastCall' = [op |-> "import_transactions", file |-> file,
                           run |-> r.run, first |-> Len(bank_transactions)]
    /\ pair' = NoPair
    /\ UNCHANGED <<invoices, handshakes, handshake_seq, contracts, shows,
                   invoice_items, settlements, procs>>

\* InvoiceImporter.import_invoices on a file
ImportInvoiceFile(file) ==
    /\ \E r \in {ImportInvoices(file, invoices, invoice_items, shows)} :
           /\ invoices' = r.invoices
           /\ invoice_items' = r.items
           /\ lastRun' = Report(r.run)
           /\ lastCall' = [op |-> "import_invoices", file |-> file,
                           run |-> r.run, first |-> Len(invoices)]
    /\ pair' = NoPair
    /\ UNCHANGED <<bank_transactions, handshakes, handshake_seq, contracts,
                   shows, settlements, procs>>

FileNext ==
    \/ \E file \in BankFiles : ImportBankFile(file)
    \/ \E file \in InvoiceFiles : ImportInvoiceFile(file)

SpecFile == Init /\ [][FileNext]_vars

\* C25: an invoice that a run of the invoice importer persisted carries the
\* header fields of the first row of the file with its invoice number, in
\* the long and in the simple format.
InvoiceHeaderFromFirstRow ==
    lastCall.op = "import_invoices" =>
        \A col_map \in {InvoiceColumns(lastCall.file.header)} :
            \A i \in (lastCall.first + 1) .. Len(invoices) :
                \A rows \in {{k \in DOMAIN lastCall.file.rows :
                                InvoiceGetValue(CellOf(lastCall.file.rows[k],
                                                       col_map.invoice_number))
                                    = invoices[i].invoice_number}} :
                    /\ rows # {}
                    /\ invoices[i].contract_number =
                           InvoiceGetValue(CellOf(lastCall.file.rows[Least(rows)],
                                                  col_map.contract_number))

\* C28: a run of the bank importer that read the rows of its file accounts
\* for each of them once: the rows imported, skipped and reported as
\* duplicates are as many as the file has.
BankRowsAccountedOnce ==
    lastCall.op = "import_transactions" /\ lastCall.run.error = "" =>
        lastCall.run.count + Len(lastCall.run.skipped)
            + Len(lastCall.run.duplicates) = Len(lastCall.file.rows)


-----------------------------------------------------------------------------
(* Concurrent calls of the matching engine: every caller has a connection
   of its own; the first INSERT, UPDATE or DELETE of a connection opens its
   write transaction, which one connection at a time can hold; a SELECT
   before it reads what is committed *)

\* no connection is inside a write transaction
LockFree == \A p \in Procs : procs[p].pc # "commit"

\* the DELETE, the re-check and the two UPDATEs of delete_handshake, for the
\* row its SELECT returned
DeleteHandshakeWrites(db, handshake_id, row) ==
    LET total_applied == FAdd(row.bank_amount_applied, row.proxy_amount)
        db1 == [db EXCEPT !.handshakes =
                   {h \in @ : h.handshake_id # handshake_id}]
        db2 == IF LastHandshakeGone(db1, row.bank_id)
               THEN UpdateBankMatched(db1, row.bank_id, FALSE)
               ELSE db1
    IN  DecreaseInvoicePaid(db2, row.invoice_id, total_applied)

\* create_handshake up to conn.commit(): the statements run in the write
\* transaction; None is returned when a statement raises or the database
\* stays locked
CreateHandshakeWrites(p, bank_id, invoice_id, applied, proxy) ==
    /\ procs[p].pc = "idle"
    /\ handshake_seq < MaxHandshakeId
    /\ \E r \in {CreateHandshakeTxn(Db, bank_id, invoice_id, applied, proxy, 0)} :
          procs' = [procs EXCEPT ![p] =
                       IF LockFree /\ r.ret # NoId
                       THEN [pc |-> "commit", pending |-> r.db]
                       ELSE Idle]
    /\ UNCHANGED <<invoices, bank_transactions, handshakes, handshake_seq,
                   contracts, shows, invoice_items, settlements, lastRun,
                   lastCall, pair>>

\* delete_handshake up to row = cursor.fetchone(): False when there is no row
DeleteHandshakeSelect(p, handshake_id) ==
    /\ procs[p].pc = "idle"
    /\ \E rows \in {{h \in handshakes : h.handshake_id = handshake_id}} :
          procs' = [procs EXCEPT ![p] =
                       IF rows = {} THEN Idle
                       ELSE [pc |-> "delete", handshake_id |-> handshake_id,
                             row |-> CHOOSE h \in rows : TRUE]]
    /\ UNCHANGED <<invoices, bank_transactions, handshakes, handshake_seq,
                   contracts, shows, invoice_items, settlements, lastRun,
                   lastCall, pair>>

\* delete_handshake from the DELETE up to conn.commit(); False when the
\* database stays locked
DeleteHandshakeDelete(p) ==
    /\ procs[p].pc = "delete"
    /\ procs' = [procs EXCEPT ![p] =
                    IF LockFree
                    THEN [pc |-> "commit",
                          pending |-> DeleteHandshakeWrites(Db,
                                          procs[p].handshake_id, procs[p].row)]
                    ELSE Idle]
    /\ UNCHANGED <<invoices, bank_transactions, handshakes, handshake_seq,
                   contracts, shows, invoice_items, settlements, lastRun,
                   lastCall, pair>>

\* conn.commit() of either function
Commit(p) ==
    /\ procs[p].pc = "commit"
    /\ invoices' = procs[p].pending.invoices
    /\ bank_transactions' = procs[p].pending.bank
    /\ handshakes' = procs[p].pending.handshakes
    /\ handshake_seq' = procs[p].pending.seq
    /\ procs' = [procs EXCEPT ![p] = Idle]
    /\ UNCHANGED <<contracts, shows, invoice_items, settlements, lastRun,
                   lastCall, pair>>

ConcurrentNext ==
    \/ \E n \in InvoiceNumbers, t \in Totals : ImportInvoice(n, t)
    \/ \E tx \in BankTransactions : ImportBankRow(tx)
    \/ \E p \in Procs, b \in DOMAIN bank_transactions, i \in DOMAIN invoices :
         \E a \in AppliedAmounts : CreateHandshakeWrites(p, b, i, a, 0)
    \/ \E p \in Procs, h \in 1 .. handshake_seq : DeleteHandshakeSelect(p, h)
    \/ \E p \in Procs : DeleteHandshakeDelete(p)
    \/ \E p \in Procs : Commit(p)

SpecConcurrent == Init /\ [][ConcurrentNext]_vars

\* the sum of the applied and proxy amounts of a set of handshakes
RECURSIVE HandshakeTotal(_)
HandshakeTotal(hs) ==
    IF hs = {} THEN 0
    ELSE LET h == CHOOSE g \in hs : TRUE
         IN  h.bank_amount_applied + h.proxy_amount + HandshakeTotal(hs \ {h})

\* C24: when no call of create_handshake or delete_handshake is in progress,
\* however the calls before interleaved, every invoice has as paid amount
\* the sum of the handshakes that refer to it, and a bank transaction is
\* matched exactly when a handshake refers to it.
NoLostHandshakeUpdate ==
    (\A p \in Procs : procs[p].pc = "idle") =>
        /\ \A i \in DOMAIN invoices :
              invoices[i].paid_amount =
                  HandshakeTotal({h \in handshakes : h.invoice_id = i})
        /\ \A b \in DOMAIN bank_transactions :
              bank_transactions[b].is_matched
                  <=> \E h \in handshakes : h.bank_id = b

====
